---- MODULE Spec2Model ----
(***************************************************************************)
(* StreamCut Pro (twitch-video-editor): the segment-decision engine.       *)
(*                                                                         *)
(* Times are seconds on an integer grid 0..MaxT.  A segment is the Python  *)
(* tuple (start, end), written <<start, end>>.  The pure functions of      *)
(* src/src/core/processor.py, whisper_handler.py and ffmpeg_handler.py are *)
(* operators computed the way the code computes them; process_video is a   *)
(* state machine over them.                                                *)
(***************************************************************************)
EXTENDS Integers, Sequences, FiniteSets, TLC

\* ------------------------------------------------------------------ bounds
MaxT == 4
MaxLen == 2
MaxPad == 2
MaxGap == 2

Times == 0 .. MaxT
Intervals == {iv \in Times \X Times : iv[1] <= iv[2]}
SeqsUpTo(S, n) == UNION {[1 .. k -> S] : k \in 0 .. n}
SegLists == SeqsUpTo(Intervals, MaxLen)
Paddings == 0 .. MaxPad
Gaps == 0 .. MaxGap

None == "None"

VARIABLES
    pc,                 \* position of the operation under way
    config,             \* VideoProcessor.config (the keys the core reads)
    cancelled,          \* VideoProcessor.cancelled
    duration,           \* the video's real length (what ffprobe reports when it works)
    total_duration,     \* the total_duration argument of _invert_segments
    silence_segments,   \* detect_silence's return value
    transcription,      \* transcribe_audio's result: None or the timed segments
    speech_segments,    \* get_speech_segments' return value
    keep_segments,      \* the keep list
    filter_parts,       \* cut_video: the (padded_start, padded_end) trims, in order
    clip_cmds,          \* export_clips: the extractions issued, in order
    transcoder_runs,    \* how many ffmpeg cut/extract processes were started
    cut_ok,             \* cut_video's return value
    clip_files,         \* export_clips' return value (the clip numbers written)
    failed,             \* the detectors that failed in this run
    all_silent,         \* the detectors found no sound at all in the video
    results,            \* process_video's result record
    timeline,           \* generate_timestamp_report: the data rows written, in order
    markers,            \* generate_premiere_xml: the asset-clip elements, in order
    file_queue,         \* MainWindow.file_queue
    processing,         \* MainWindow.processing
    worker,             \* process_thread: its position, its iterator, what it started
    progress            \* the Tk windows: the result lines, completion, existence

vars == <<pc, config, cancelled, duration, total_duration, silence_segments,
          transcription, speech_segments, keep_segments, filter_parts,
          clip_cmds, transcoder_runs, cut_ok, clip_files, failed, all_silent,
          results, timeline, markers, file_queue, processing, worker, progress>>

\* ------------------------------------------------------------ list helpers
Start(seg) == seg[1]
End(seg) == seg[2]

\* Python's tuple order: by start, then by end.
TupleLess(a, b) == a[1] < b[1] \/ (a[1] = b[1] /\ a[2] < b[2])

RECURSIVE Insert(_, _)
Insert(x, s) ==
    IF s = <<>> THEN <<x>>
    ELSE IF TupleLess(Head(s), x) THEN <<Head(s)>> \o Insert(x, Tail(s))
    ELSE <<x>> \o s

RECURSIVE SortTuples(_)
SortTuples(s) == IF s = <<>> THEN <<>> ELSE Insert(Head(s), SortTuples(Tail(s)))

\* A plausible slip: the walk runs over the list as the detector gave it.
sorted_dropped(s) == s

\* sorted(silence_segments), sorted(segments)
sorted(s) == SortTuples(s)

\* sum(end - start for start, end in keep_segments)
RECURSIVE SumDurations(_)
SumDurations(s) ==
    IF s = <<>> THEN 0 ELSE (End(Head(s)) - Start(Head(s))) + SumDurations(Tail(s))

\* ------------------------------------------------- _invert_segments (ffmpeg)
\* One iteration of the loop: lines 222-225.
InvertStep(st, seg) ==
    [keep |-> IF Start(seg) > st.last_end
              THEN Append(st.keep, <<st.last_end, Start(seg)>>)
              ELSE st.keep,
     last_end |-> End(seg)]

\* The loop state after the first n silence intervals of the sorted list.
RECURSIVE InvertWalk(_, _)
InvertWalk(ss, n) ==
    IF n = 0 THEN [keep |-> <<>>, last_end |-> 0]
    ELSE InvertStep(InvertWalk(ss, n - 1), ss[n])

\* A plausible slip: the final segment after the last silence is forgotten.
invert_segments_no_tail(silence, D) ==
    IF silence = <<>> THEN << <<0, D>> >>
    ELSE InvertWalk(sorted(silence), Len(silence)).keep

invert_segments(silence, D) ==
    IF silence = <<>> THEN << <<0, D>> >>
    ELSE LET st == InvertWalk(sorted(silence), Len(silence))
         IN  IF st.last_end < D THEN Append(st.keep, <<st.last_end, D>>)
             ELSE st.keep

\* ------------------------------------- get_speech_segments (whisper_handler)
\* One iteration of the loop over transcription['segments']: lines 121-135.
\* current is None or the (current_start, current_end) pair.
SpeechStep(st, seg, min_gap) ==
    IF ~ st.has_current
    THEN [segments |-> st.segments, has_current |-> TRUE, current |-> seg]
    ELSE IF Start(seg) - End(st.current) <= min_gap
         THEN [st EXCEPT !.current = <<Start(st.current), End(seg)>>]
         ELSE [st EXCEPT !.segments = Append(st.segments, st.current),
                         !.current = seg]

\* The loop state after the first n raw segments; has_current is
\* "current_start is not None".
RECURSIVE SpeechWalk(_, _, _)
SpeechWalk(raw, n, min_gap) ==
    IF n = 0 THEN [segments |-> <<>>, has_current |-> FALSE, current |-> <<0, 0>>]
    ELSE SpeechStep(SpeechWalk(raw, n - 1, min_gap), raw[n], min_gap)

\* transcription is [ok |-> FALSE] for None, or the dict with its 'segments'.
NoTranscription == [ok |-> FALSE, segments |-> <<>>]
Transcribed(raw) == [ok |-> TRUE, segments |-> raw]

get_speech_segments(transcr, min_gap) ==
    IF ~ transcr.ok THEN <<>>
    ELSE LET st == SpeechWalk(transcr.segments, Len(transcr.segments), min_gap)
         IN  IF st.has_current THEN Append(st.segments, st.current)
             ELSE st.segments

\* A plausible slip: with no transcription the whole recording is taken as
\* speech.
detect_speech_from_video_fail_open(transcr, min_gap) ==
    IF ~ transcr.ok THEN << <<0, MaxT>> >> ELSE get_speech_segments(transcr, min_gap)

\* detect_speech_from_video once the audio is extracted: a failed transcription
\* (None) gives [], otherwise the gap-bridged segments.
detect_speech_from_video(transcr, min_gap) ==
    IF ~ transcr.ok THEN <<>> ELSE get_speech_segments(transcr, min_gap)

\* ---------------------------------------------- _merge_segments (hybrid)
\* not (speech_end < silence_start or speech_start > silence_end)
Overlaps(speech, silence) ==
    ~ (End(speech) < Start(silence) \/ Start(speech) > End(silence))

\* A plausible slip: strict comparisons, so touching endpoints do not overlap.
overlaps_silence_strict(speech, silences) ==
    \E j \in 1 .. Len(silences) :
        ~ (End(speech) <= Start(silences[j]) \/ Start(speech) >= End(silences[j]))

\* The inner loop, lines 244-248.
overlaps_silence(speech, silences) ==
    \E j \in 1 .. Len(silences) : Overlaps(speech, silences[j])

RECURSIVE merge_segments(_, _)
merge_segments(speech, silences) ==
    IF speech = <<>> THEN <<>>
    ELSE LET rest == merge_segments(Tail(speech), silences)
         IN  IF overlaps_silence(Head(speech), silences) THEN rest
             ELSE <<Head(speech)>> \o rest

\* ------------------------------------------------ cut_video (ffmpeg_handler)
Max(a, b) == IF a >= b THEN a ELSE b

\* A plausible slip: the start is not clamped at 0.
padded_start_unclamped(seg, padding) == Start(seg) - padding

\* padded_start = max(0, start - padding): lines 137 and 229.
padded_start(seg, padding) == Max(0, Start(seg) - padding)

\* padded_end = end + padding: line 138.
padded_end(seg, padding) == End(seg) + padding

\* The trims of the filter graph, lines 134-143: [v{i}]/[a{i}] for i = 0, 1, ...
FilterParts(keep, padding) ==
    [k \in 1 .. Len(keep) |->
        [label |-> k - 1,
         trim_start |-> padded_start(keep[k], padding),
         trim_end |-> padded_end(keep[k], padding)]]

\* cut_video: with no segment it returns False before building anything;
\* otherwise it starts the transcoder and returns whether it exited with 0.
cut_video(keep, padding, exit_ok) ==
    IF keep = <<>>
    THEN [returned |-> FALSE, filter_parts |-> <<>>, started |-> 0]
    ELSE [returned |-> exit_ok, filter_parts |-> FilterParts(keep, padding),
          started |-> 1]

\* -------------------------------------------- export_clips (ffmpeg_handler)
\* A plausible slip: the clip lasts end - start, the padding left out.
clip_duration_unpadded(seg, padding) == End(seg) - Start(seg)

\* duration = (end + padding) - padded_start: line 230.
clip_duration(seg, padding) == (End(seg) + padding) - padded_start(seg, padding)

\* The extraction issued for the i-th segment (enumerate(segments, 1)), lines
\* 228-246, and whether subprocess.run succeeded.
ClipCmd(seg, i, padding, ok) ==
    [num |-> i, ss |-> padded_start(seg, padding),
     t |-> clip_duration(seg, padding), ok |-> ok]

ClipCmds(segments, padding, oks) ==
    [i \in 1 .. Len(segments) |-> ClipCmd(segments[i], i, padding, oks[i])]

\* output_files: the clips whose extraction did not raise, in order.
RECURSIVE ClipFilesUpTo(_, _)
ClipFilesUpTo(cmds, n) ==
    IF n = 0 THEN <<>>
    ELSE IF cmds[n].ok THEN Append(ClipFilesUpTo(cmds, n - 1), cmds[n].num)
         ELSE ClipFilesUpTo(cmds, n - 1)

\* How many extractions run when the loop stops at the first failure.
AttemptsUntilFailure(oks, n) ==
    IF \E i \in 1 .. n : ~ oks[i]
    THEN CHOOSE i \in 1 .. n : ~ oks[i] /\ \A j \in 1 .. i - 1 : oks[j]
    ELSE n

\* A plausible slip: the first failed extraction ends the loop.
export_clips_stop_at_failure(segments, padding, oks) ==
    LET m == AttemptsUntilFailure(oks, Len(segments))
        cmds == [i \in 1 .. m |-> ClipCmd(segments[i], i, padding, oks[i])]
    IN  [cmds |-> cmds, output_files |-> ClipFilesUpTo(cmds, m)]

\* export_clips, lines 225-259: every segment in turn; a failed extraction is
\* caught at line 255 and the loop goes on.
export_clips(segments, padding, oks) ==
    LET cmds == ClipCmds(segments, padding, oks)
    IN  [cmds |-> cmds, output_files |-> ClipFilesUpTo(cmds, Len(cmds))]

\* ----------------------------------------------------------- defaults
RestConfig ==
    [processing_mode |-> "ffmpeg", padding_seconds |-> 0,
     min_silence_duration |-> 0, export_merged |-> TRUE, export_clips |-> FALSE,
     export_timestamps |-> TRUE, export_xml |-> FALSE]

NewResults ==
    [success |-> FALSE, output_files |-> <<>>, original_duration |-> 0,
     final_duration |-> 0, segments_removed |-> 0, time_saved |-> 0,
     error |-> None]

\* No batch under way: process_thread does not exist, nor a progress window.
IdleWorker ==
    [pc |-> "idle", i |-> 0, video |-> 0, started |-> <<>>, result |-> "none",
     queued |-> <<>>, pressed |-> <<>>, threads |-> 0]
NoProgressWindow == [results |-> <<>>, complete |-> FALSE, window |-> "none"]

\* Everything at rest: what a specification leaves alone stays like this.
Rest(v) ==
    /\ IF "config" \in v THEN TRUE ELSE config = RestConfig
    /\ IF "cancelled" \in v THEN TRUE ELSE cancelled = FALSE
    /\ IF "duration" \in v THEN TRUE ELSE duration = 0
    /\ IF "total_duration" \in v THEN TRUE ELSE total_duration = 0
    /\ IF "silence_segments" \in v THEN TRUE ELSE silence_segments = <<>>
    /\ IF "transcription" \in v THEN TRUE ELSE transcription = NoTranscription
    /\ IF "speech_segments" \in v THEN TRUE ELSE speech_segments = <<>>
    /\ IF "keep_segments" \in v THEN TRUE ELSE keep_segments = <<>>
    /\ IF "filter_parts" \in v THEN TRUE ELSE filter_parts = <<>>
    /\ IF "clip_cmds" \in v THEN TRUE ELSE clip_cmds = <<>>
    /\ IF "transcoder_runs" \in v THEN TRUE ELSE transcoder_runs = 0
    /\ IF "cut_ok" \in v THEN TRUE ELSE cut_ok = FALSE
    /\ IF "clip_files" \in v THEN TRUE ELSE clip_files = <<>>
    /\ IF "failed" \in v THEN TRUE ELSE failed = {}
    /\ IF "all_silent" \in v THEN TRUE ELSE all_silent = FALSE
    /\ IF "results" \in v THEN TRUE ELSE results = NewResults
    /\ IF "timeline" \in v THEN TRUE ELSE timeline = <<>>
    /\ IF "markers" \in v THEN TRUE ELSE markers = <<>>
    /\ IF "file_queue" \in v THEN TRUE ELSE file_queue = <<>>
    /\ IF "processing" \in v THEN TRUE ELSE processing = FALSE
    /\ IF "worker" \in v THEN TRUE ELSE worker = IdleWorker
    /\ IF "progress" \in v THEN TRUE ELSE progress = NoProgressWindow

\* ------------------------------------------------ keep-list invariants (§3)
SortedByStart(s) == \A i \in 1 .. Len(s) - 1 : Start(s[i]) <= Start(s[i + 1])
Disjoint(a, b) == End(a) <= Start(b) \/ End(b) <= Start(a)
NoOverlap(s) == \A i, j \in 1 .. Len(s) : i < j => Disjoint(s[i], s[j])
WellFormed(s) == \A i \in 1 .. Len(s) : Start(s[i]) <= End(s[i])

\* The seconds [t, t+1) a list covers.
Covered(s) == {t \in 0 .. MaxT : \E i \in 1 .. Len(s) : Start(s[i]) <= t /\ t < End(s[i])}

\* ------------------------------------------- specification: silence_only
InitInvert ==
    /\ pc = "invert_call"
    /\ silence_segments \in SegLists
    /\ total_duration \in Times
    /\ Rest({"silence_segments", "total_duration"})

\* _detect_keep_segments, mode 'ffmpeg', line 166: the inversion itself.
Invert ==
    /\ pc = "invert_call"
    /\ keep_segments' = invert_segments(silence_segments, total_duration)
    /\ pc' = "invert_done"
    /\ UNCHANGED <<config, cancelled, duration, total_duration, silence_segments,
                   transcription, speech_segments, filter_parts, clip_cmds,
                   transcoder_runs, cut_ok, clip_files,
                   failed, all_silent, results,
                   timeline, markers, file_queue, processing, worker,
                   progress>>

NextInvert == Invert
SpecInvert == InitInvert /\ [][NextInvert]_vars

\* C1: whatever the silence list (unsorted, overlapping, nested) and whatever
\* total_duration, the keep list of silence_only inversion is sorted ascending
\* by start and no two of its segments overlap.
C1_InvertSortedDisjoint ==
    pc = "invert_done" => SortedByStart(keep_segments) /\ NoOverlap(keep_segments)

\* C1's case: a nested, unsorted silence list has been inverted into two keeps.
C1_Witness ==
    /\ pc = "invert_done"
    /\ Len(silence_segments) = 2
    /\ TupleLess(silence_segments[2], silence_segments[1])
    /\ End(silence_segments[1]) < End(silence_segments[2])
    /\ Len(keep_segments) = 2

\* Sorted, pairwise disjoint silence intervals inside [0, D].
DisjointSilence(s, D) ==
    /\ \A i \in 1 .. Len(s) : End(s[i]) <= D
    /\ \A i \in 1 .. Len(s) - 1 : End(s[i]) <= Start(s[i + 1])

\* C2: inversion round-trip.  For sorted disjoint silence inside [0, D] the
\* seconds covered by the keep list and by the silence list together are
\* exactly [0, D], no keep segment overlaps a silence interval, and the
\* spec's example comes out as stated.
C2_InvertRoundTrip ==
    /\ (pc = "invert_done" /\ DisjointSilence(silence_segments, total_duration)) =>
          /\ Covered(keep_segments) \cup Covered(silence_segments) = 0 .. total_duration - 1
          /\ Covered(keep_segments) \cap Covered(silence_segments) = {}
          /\ \A i \in 1 .. Len(keep_segments), j \in 1 .. Len(silence_segments) :
                 Disjoint(keep_segments[i], silence_segments[j])
    /\ invert_segments(<< <<10, 15>>, <<40, 42>> >>, 60)
           = << <<0, 10>>, <<15, 40>>, <<42, 60>> >>

\* C2's case: two disjoint silences strictly inside the video, keeps around them.
C2_Witness ==
    /\ pc = "invert_done"
    /\ DisjointSilence(silence_segments, total_duration)
    /\ Len(silence_segments) = 2
    /\ Start(silence_segments[1]) > 0
    /\ End(silence_segments[1]) < Start(silence_segments[2])
    /\ Len(keep_segments) >= 2

\* C3: with total_duration = 0 the silence_only keep list is empty.
C3_ZeroDurationEmptyKeep ==
    (pc = "invert_done" /\ total_duration = 0) => keep_segments = <<>>

\* C22: during the silence_only walk over the sorted silence intervals
\* last_end never decreases, so that even for overlapping or nested silence
\* intervals no emitted keep segment overlaps a silence interval.
C22_LastEndMonotone ==
    pc = "invert_done" =>
        LET ss == sorted(silence_segments)
        IN  /\ \A n \in 1 .. Len(ss) :
                   InvertWalk(ss, n - 1).last_end <= InvertWalk(ss, n).last_end
            /\ \A i \in 1 .. Len(keep_segments), j \in 1 .. Len(silence_segments) :
                   Disjoint(keep_segments[i], silence_segments[j])

\* C24: every keep segment of silence_only inversion satisfies
\* 0 <= start <= end <= total_duration, whatever the detector's silence list,
\* silence beyond total_duration included.
C24_KeepWithinDuration ==
    pc = "invert_done" =>
        \A k \in 1 .. Len(keep_segments) :
            /\ 0 <= Start(keep_segments[k])
            /\ Start(keep_segments[k]) <= End(keep_segments[k])
            /\ End(keep_segments[k]) <= total_duration

\* -------------------------------------------- specification: speech_only
Transcriptions == {Transcribed(raw) : raw \in SegLists} \cup {NoTranscription}

InitSpeech ==
    /\ pc = "speech_call"
    /\ transcription \in Transcriptions
    /\ config \in {[RestConfig EXCEPT !.processing_mode = "whisper",
                                      !.min_silence_duration = g] : g \in Gaps}
    /\ Rest({"transcription", "config"})

\* _detect_keep_segments, mode 'whisper', lines 168-175: the speech detector's
\* list is returned as the keep list.
DetectSpeechOnly ==
    /\ pc = "speech_call"
    /\ speech_segments' =
           detect_speech_from_video(transcription, config.min_silence_duration)
    /\ keep_segments' = speech_segments'
    /\ pc' = "speech_done"
    /\ UNCHANGED <<config, cancelled, duration, total_duration, silence_segments,
                   transcription, filter_parts, clip_cmds, transcoder_runs,
                   cut_ok, clip_files, failed, all_silent, results,
                   timeline, markers, file_queue, processing, worker,
                   progress>>

NextSpeech == DetectSpeechOnly
SpecSpeech == InitSpeech /\ [][NextSpeech]_vars

\* C5: in speech_only mode the keep list is sorted ascending by start,
\* non-overlapping, and every segment has start <= end, for any order and
\* nesting of the raw transcription segments.
C5_SpeechOnlyKeepCanonical ==
    pc = "speech_done" =>
        /\ SortedByStart(keep_segments)
        /\ NoOverlap(keep_segments)
        /\ WellFormed(keep_segments)

\* Some output interval holds the raw span in full.
InsideOne(span, out) ==
    \E k \in 1 .. Len(out) : Start(out[k]) <= Start(span) /\ End(span) <= End(out[k])
InsideSame(a, b, out) ==
    \E k \in 1 .. Len(out) :
        /\ Start(out[k]) <= Start(a) /\ End(a) <= End(out[k])
        /\ Start(out[k]) <= Start(b) /\ End(b) <= End(out[k])

\* C6: gap-bridging maximality.  Consecutive output intervals are more than
\* min_gap apart, and a raw span whose gap to its predecessor is <= min_gap
\* lies, with that predecessor, in full inside one output interval.
C6_GapBridgingMaximal ==
    (pc = "speech_done" /\ transcription.ok) =>
        /\ \A k \in 1 .. Len(speech_segments) - 1 :
               Start(speech_segments[k + 1]) - End(speech_segments[k])
                   > config.min_silence_duration
        /\ \A i \in 2 .. Len(transcription.segments) :
               Start(transcription.segments[i]) - End(transcription.segments[i - 1])
                       <= config.min_silence_duration
                   => InsideSame(transcription.segments[i - 1], transcription.segments[i],
                                 speech_segments)

\* ------------------------------------------------- specification: combined
\* The combined policy only compares endpoints, so its inputs are drawn on the
\* grid 0 .. MaxT - 1: speech lists in any order (the policy does not re-sort),
\* silence lists as detect_silence builds them from ffmpeg's log, one
\* silence_start/silence_end pair after the other in time order.
MergeIntervals == {iv \in Intervals : End(iv) < MaxT}
Chronological(s) == \A i \in 1 .. Len(s) - 1 : End(s[i]) <= Start(s[i + 1])
MergeSpeechLists == SeqsUpTo(MergeIntervals, MaxLen)
MergeSilenceLists == {s \in SeqsUpTo(MergeIntervals, MaxLen) : Chronological(s)}

InitMerge ==
    /\ pc = "merge_call"
    /\ speech_segments \in MergeSpeechLists
    /\ silence_segments \in MergeSilenceLists
    /\ Rest({"speech_segments", "silence_segments"})

\* A plausible slip: the survivors are put in time order before they are
\* returned.
Merge_sorted ==
    /\ pc = "merge_call"
    /\ keep_segments' = sorted(merge_segments(speech_segments, silence_segments))
    /\ pc' = "merge_done"
    /\ UNCHANGED <<config, cancelled, duration, total_duration, silence_segments,
                   transcription, speech_segments, filter_parts, clip_cmds,
                   transcoder_runs, cut_ok, clip_files, failed, all_silent,
                   results, timeline, markers, file_queue, processing, worker,
                   progress>>

\* _detect_keep_segments, mode 'hybrid', line 198.
Merge ==
    /\ pc = "merge_call"
    /\ keep_segments' = merge_segments(speech_segments, silence_segments)
    /\ pc' = "merge_done"
    /\ UNCHANGED <<config, cancelled, duration, total_duration, silence_segments,
                   transcription, speech_segments, filter_parts, clip_cmds,
                   transcoder_runs, cut_ok, clip_files,
                   failed, all_silent, results,
                   timeline, markers, file_queue, processing, worker,
                   progress>>

NextMerge == Merge
SpecMerge == InitMerge /\ [][NextMerge]_vars

Member(x, s) == \E i \in 1 .. Len(s) : s[i] = x

\* C4: combined conservatism.  A speech interval S that overlaps a silence
\* interval V, touching endpoints included, is absent from the keep list of
\* _merge_segments; the spec's example gives the empty list.
C4_CombinedConservatism ==
    /\ pc = "merge_done" =>
          \A i \in 1 .. Len(speech_segments), j \in 1 .. Len(silence_segments) :
              ~ (End(speech_segments[i]) < Start(silence_segments[j])
                     \/ Start(speech_segments[i]) > End(silence_segments[j]))
                  => ~ Member(speech_segments[i], keep_segments)
    /\ merge_segments(<< <<5, 20>>, <<25, 45>> >>, << <<18, 27>> >>) = <<>>

\* C4's case: a speech interval that only touches a silence interval was
\* dropped while another speech interval survived.
C4_Witness ==
    /\ pc = "merge_done"
    /\ Len(speech_segments) = 2
    /\ Len(keep_segments) = 1
    /\ \E i \in 1 .. 2, j \in 1 .. Len(silence_segments) :
           /\ End(speech_segments[i]) = Start(silence_segments[j])
           /\ Start(speech_segments[i]) < End(speech_segments[i])
           /\ ~ Member(speech_segments[i], keep_segments)

\* The positions of the speech intervals that overlap no silence interval,
\* by the test of line 246.
Survivors ==
    {i \in 1 .. Len(speech_segments) :
        \A j \in 1 .. Len(silence_segments) :
            \/ End(speech_segments[i]) < Start(silence_segments[j])
            \/ Start(speech_segments[i]) > End(silence_segments[j])}

\* C23: the keep list of combined mode is exactly the subsequence of the speech
\* list made of the intervals that overlap no silence interval: in their
\* original order, with their original start and end; with no silence at all
\* it is the speech list.
C23_CombinedIsSubsequence ==
    pc = "merge_done" =>
        /\ Len(keep_segments) = Cardinality(Survivors)
        /\ \A i \in Survivors :
               keep_segments[Cardinality({j \in Survivors : j <= i})] =
                   speech_segments[i]
        /\ silence_segments = <<>> => keep_segments = speech_segments

\* C23's case: speech intervals given out of time order, a silence list that
\* is not empty, and two survivors that came out in the order they had.
C23_Witness ==
    /\ pc = "merge_done"
    /\ Len(speech_segments) >= 2
    /\ Len(keep_segments) >= 2
    /\ silence_segments # <<>>
    /\ Start(keep_segments[1]) > Start(keep_segments[2])

\* ---------------------------------------------- specification: cut planner
InitPlan ==
    /\ pc = "plan_call"
    /\ keep_segments \in SegLists
    /\ config \in {[RestConfig EXCEPT !.padding_seconds = p] : p \in Paddings}
    /\ Rest({"keep_segments", "config"})

\* A call of cut_video: lines 125-200.
CutVideoCall ==
    /\ pc = "plan_call"
    /\ \E exit_ok \in BOOLEAN :
           LET r == cut_video(keep_segments, config.padding_seconds, exit_ok)
           IN  /\ filter_parts' = r.filter_parts
               /\ cut_ok' = r.returned
               /\ transcoder_runs' = transcoder_runs + r.started
    /\ pc' = "cut_returned"
    /\ UNCHANGED <<config, cancelled, duration, total_duration, silence_segments,
                   transcription, speech_segments, keep_segments, clip_cmds,
                   clip_files, failed, all_silent, results,
                   timeline, markers, file_queue, processing, worker,
                   progress>>

\* A call of export_clips on the same list: lines 225-259.
ExportClipsCall ==
    /\ pc = "cut_returned"
    /\ \E oks \in [1 .. Len(keep_segments) -> BOOLEAN] :
           LET r == export_clips(keep_segments, config.padding_seconds, oks)
           IN  /\ clip_cmds' = r.cmds
               /\ clip_files' = r.output_files
               /\ transcoder_runs' = transcoder_runs + Len(r.cmds)
    /\ pc' = "clips_returned"
    /\ UNCHANGED <<config, cancelled, duration, total_duration, silence_segments,
                   transcription, speech_segments, keep_segments, filter_parts,
                   cut_ok, failed, all_silent, results,
                   timeline, markers, file_queue, processing, worker,
                   progress>>

NextPlan == CutVideoCall \/ ExportClipsCall
SpecPlan == InitPlan /\ [][NextPlan]_vars

\* C7: the merged-output instructions are one per keep segment, in keep-list
\* order, with paddedStart = max(0, start - padding) and paddedEnd = end +
\* padding; paddedStart is never negative.
C7_MergedInstructions ==
    (pc \in {"cut_returned", "clips_returned"} /\ keep_segments # <<>>) =>
        /\ Len(filter_parts) = Len(keep_segments)
        /\ \A k \in 1 .. Len(keep_segments) :
               LET s == keep_segments[k][1]
                   e == keep_segments[k][2]
                   p == config.padding_seconds
               IN  /\ filter_parts[k].label = k - 1
                   /\ filter_parts[k].trim_start = (IF s - p > 0 THEN s - p ELSE 0)
                   /\ filter_parts[k].trim_end = e + p
                   /\ filter_parts[k].trim_start >= 0

\* C7's case: an unsorted keep list and a padding larger than a segment's
\* start, so that the clamp acts and the order is the list's, not the sorted one.
C7_Witness ==
    /\ pc = "cut_returned"
    /\ Len(keep_segments) = 2
    /\ Start(keep_segments[2]) < Start(keep_segments[1])
    /\ Start(keep_segments[2]) < config.padding_seconds
    /\ filter_parts[1].trim_start > filter_parts[2].trim_start

\* C8: export_clips issues for the i-th segment one extraction numbered i with
\* paddedStart = max(0, start - padding) and duration = (end + padding) -
\* paddedStart, so paddedStart + duration is the i-th merged instruction's
\* paddedEnd; the clip numbers are 1..n.
C8_ClipInstructions ==
    pc = "clips_returned" =>
        /\ Len(clip_cmds) = Len(keep_segments)
        /\ \A i \in 1 .. Len(keep_segments) :
               LET s == keep_segments[i][1]
                   e == keep_segments[i][2]
                   p == config.padding_seconds
                   ps == IF s - p > 0 THEN s - p ELSE 0
               IN  /\ clip_cmds[i].num = i
                   /\ clip_cmds[i].ss = ps
                   /\ clip_cmds[i].t = (e + p) - ps
                   /\ clip_cmds[i].ss + clip_cmds[i].t = filter_parts[i].trim_end

\* C8's case: two clips were issued, the first with a clamped start.
C8_Witness ==
    /\ pc = "clips_returned"
    /\ Len(clip_cmds) = 2
    /\ config.padding_seconds > Start(keep_segments[1])
    /\ clip_cmds[1].ss = 0
    /\ clip_cmds[2].num = 2

C25_PaddedRangesDisjoint ==
    (/\ pc = "cut_returned"
     /\ WellFormed(keep_segments)
     /\ SortedByStart(keep_segments)
     /\ NoOverlap(keep_segments)) =>
        \A i, j \in 1 .. Len(filter_parts) :
            i < j => \/ filter_parts[i].trim_end <= filter_parts[j].trim_start
                     \/ filter_parts[j].trim_end <= filter_parts[i].trim_start

\* ------------------------------------------------ the reports (processor)
\* _format_duration, lines 361-367: hours, minutes and seconds, each cut to an
\* integer; the text is "HH:MM:SS".
format_duration(seconds) ==
    <<seconds \div 3600, (seconds % 3600) \div 60, seconds % 60>>

\* The seconds a reader of the report gets back from an "HH:MM:SS" field.
seconds_of(text) == text[1] * 3600 + text[2] * 60 + text[3]

\* A plausible slip: the counter is not advanced after a row.
next_segment_num_stuck(segment_num) == segment_num

\* "segment_num += 1", lines 292 and 303.
next_segment_num(segment_num) == segment_num + 1

\* Lines 285-291 and 307-313: the row of a removed stretch.
RemovedRow(segment_num, from, to) ==
    [label |-> <<"Cut", segment_num>>, start |-> format_duration(from),
     end |-> format_duration(to), duration |-> format_duration(to - from),
     action |-> "REMOVED"]

\* A plausible slip: the duration column of a kept row holds the end time.
KeptRow_duration_end(segment_num, seg) ==
    [label |-> <<"Clip", segment_num>>, start |-> format_duration(Start(seg)),
     end |-> format_duration(End(seg)), duration |-> format_duration(End(seg)),
     action |-> "KEPT"]

\* Lines 295-301: the row of a keep segment.
KeptRow(segment_num, seg) ==
    [label |-> <<"Clip", segment_num>>, start |-> format_duration(Start(seg)),
     end |-> format_duration(End(seg)),
     duration |-> format_duration(End(seg) - Start(seg)), action |-> "KEPT"]

\* One turn of the loop at lines 282-304.
ReportStep(w, seg) ==
    LET gap == Start(seg) > w.last_end
        rows1 == IF gap
                 THEN Append(w.rows, RemovedRow(w.segment_num, w.last_end, Start(seg)))
                 ELSE w.rows
        num1 == IF gap THEN next_segment_num(w.segment_num) ELSE w.segment_num
    IN  [rows |-> Append(rows1, KeptRow(num1, seg)),
         segment_num |-> next_segment_num(num1), last_end |-> End(seg)]

RECURSIVE ReportWalk(_, _)
ReportWalk(w, segs) ==
    IF segs = <<>> THEN w ELSE ReportWalk(ReportStep(w, Head(segs)), Tail(segs))

\* generate_timestamp_report, lines 267-319: the data rows under the header.
\* segment_num starts at 1 and last_end at 0 (lines 279-280); the walk is over
\* sorted(segments) (line 282); the trailing row is at lines 306-313.
generate_timestamp_report(segments, total) ==
    LET w == ReportWalk([rows |-> <<>>, segment_num |-> 1, last_end |-> 0],
                        sorted(segments))
    IN  IF w.last_end < total
        THEN Append(w.rows, RemovedRow(w.segment_num, w.last_end, total))
        ELSE w.rows

\* A plausible slip: the marker starts at the padded start of the cut.
Marker_padded(seg, i) ==
    [offset |-> <<padded_start(seg, config.padding_seconds), "s">>,
     duration |-> <<End(seg) - Start(seg), "s">>, name |-> <<"Clip", i>>]

\* Lines 341-343: the asset-clip element of the i-th segment.
Marker(seg, i) ==
    [offset |-> <<Start(seg), "s">>, duration |-> <<End(seg) - Start(seg), "s">>,
     name |-> <<"Clip", i>>]

\* generate_premiere_xml, lines 321-359: enumerate(segments, 1), no sort.
generate_premiere_xml(segments) ==
    [i \in 1 .. Len(segments) |-> Marker(segments[i], i)]

\* ------------------------------------------------ specification: reports
InitReport ==
    /\ pc = "report_call"
    /\ keep_segments \in SegLists
    /\ total_duration \in Times
    /\ config \in {[RestConfig EXCEPT !.padding_seconds = p] : p \in Paddings}
    /\ Rest({"keep_segments", "total_duration", "config"})

\* A call of generate_timestamp_report(keep_segments, file, total_duration).
GenerateTimestampReport ==
    /\ pc = "report_call"
    /\ timeline' = generate_timestamp_report(keep_segments, total_duration)
    /\ pc' = "csv_written"
    /\ UNCHANGED <<config, cancelled, duration, total_duration, silence_segments,
                   transcription, speech_segments, keep_segments, filter_parts,
                   clip_cmds, transcoder_runs, cut_ok, clip_files, failed,
                   all_silent, results, markers, file_queue, processing, worker,
                   progress>>

\* A call of generate_premiere_xml on the same list.
GeneratePremiereXml ==
    /\ pc = "csv_written"
    /\ markers' = generate_premiere_xml(keep_segments)
    /\ pc' = "xml_written"
    /\ UNCHANGED <<config, cancelled, duration, total_duration, silence_segments,
                   transcription, speech_segments, keep_segments, filter_parts,
                   clip_cmds, transcoder_runs, cut_ok, clip_files, failed,
                   all_silent, results, timeline, file_queue, processing, worker,
                   progress>>

NextReport == GenerateTimestampReport \/ GeneratePremiereXml
SpecReport == InitReport /\ [][NextReport]_vars

ReportWritten == pc \in {"csv_written", "xml_written"}

\* The rows' ranges, read back, tile [0, total]: they start at 0, each starts
\* where the one before ended, and the last ends at total.
Tiles(rows, total) ==
    IF rows = <<>> THEN total = 0
    ELSE /\ seconds_of(rows[1].start) = 0
         /\ \A n \in 1 .. Len(rows) - 1 : rows[n + 1].start = rows[n].end
         /\ \A n \in 1 .. Len(rows) : seconds_of(rows[n].start) <= seconds_of(rows[n].end)
         /\ seconds_of(rows[Len(rows)].end) = total

\* C11: for any sorted non-overlapping keep list and duration D, the ranges of
\* the timeline rows, in row order, partition [0, D] exactly: the first row
\* starts at 0, each row starts where the previous one ended, the last row
\* ends at D.
C11_ReportCoverage ==
    (ReportWritten /\ SortedByStart(keep_segments) /\ NoOverlap(keep_segments)) =>
        Tiles(timeline, total_duration)

\* C12: for any sorted non-overlapping keep list (touching segments included)
\* and duration D, no two consecutive timeline rows carry the same action.
C12_RowsAlternate ==
    (ReportWritten /\ SortedByStart(keep_segments) /\ NoOverlap(keep_segments)) =>
        \A n \in 1 .. Len(timeline) - 1 : timeline[n].action # timeline[n + 1].action

IsKept(row) == row.action = "KEPT"
KeptRows(rows) == SelectSeq(rows, IsKept)

RECURSIVE SumRowDurations(_)
SumRowDurations(rows) ==
    IF rows = <<>> THEN 0
    ELSE seconds_of(Head(rows).duration) + SumRowDurations(Tail(rows))

C15_MarkersUnpadded ==
    pc = "xml_written" =>
        /\ Len(markers) = Len(keep_segments)
        /\ \A i \in 1 .. Len(keep_segments) :
               /\ markers[i].offset = <<keep_segments[i][1], "s">>
               /\ markers[i].duration =
                      <<keep_segments[i][2] - keep_segments[i][1], "s">>
               /\ markers[i].name = <<"Clip", i>>

\* C15's case: a padding that would move the first marker, and a list that is
\* not in time order.
C15_Witness ==
    /\ pc = "xml_written"
    /\ Len(markers) = 2
    /\ config.padding_seconds > 0
    /\ Start(keep_segments[1]) > Start(keep_segments[2])
    /\ markers[1].offset[1] > markers[2].offset[1]

\* C16: the N-th data row of the timeline is labelled "Cut N" when its action
\* is REMOVED and "Clip N" when it is KEPT: one counter, 1, 2, 3, ..., shared
\* by both kinds of rows.
C16_SharedCounter ==
    ReportWritten =>
        \A n \in 1 .. Len(timeline) :
            timeline[n].label =
                <<IF timeline[n].action = "REMOVED" THEN "Cut" ELSE "Clip", n>>

\* C16's case: a removed stretch before, between and after two keep segments.
C16_Witness ==
    /\ ReportWritten
    /\ Len(timeline) = 5
    /\ timeline[1].action = "REMOVED"
    /\ timeline[3].action = "REMOVED"
    /\ timeline[5].label = <<"Cut", 5>>

\* ------------------------------------------- specification: process_video
Modes == {"ffmpeg", "whisper", "hybrid", "other"}

\* The settings of a run: every mode and every combination of exports.  The
\* padding and the minimum gap take one value each here; the specifications
\* of the planner and of the speech detector range over all of them.
Configs ==
    [processing_mode : Modes, padding_seconds : {1},
     min_silence_duration : {1}, export_merged : BOOLEAN,
     export_clips : BOOLEAN, export_timestamps : BOOLEAN, export_xml : BOOLEAN]

\* What a detector reports on a real video: intervals of positive length, one
\* after the other in time order.
DetectorLists ==
    {s \in SegLists : Chronological(s) /\ \A i \in 1 .. Len(s) : Start(s[i]) < End(s[i])}

\* detect_silence: the parsed list, or [] when the run raised (lines 76-83).
SilenceOutcomes ==
    {[ok |-> TRUE, segments |-> s] : s \in DetectorLists}
        \cup {[ok |-> FALSE, segments |-> <<>>]}

\* extract_audio + transcribe_audio: the transcription, or None on failure.
SpeechOutcomes == {Transcribed(raw) : raw \in DetectorLists} \cup {NoTranscription}

CancelledMsg == "Processing cancelled by user"
NoSegmentsMsg == "No segments to keep"
ExceptionMsg == "str(e)"

MergedFile == [kind |-> "edited", num |-> 0]
ClipFile(i) == [kind |-> "clip", num |-> i]
TimestampFile == [kind |-> "timestamps", num |-> 0]
XmlFile == [kind |-> "premiere", num |-> 0]

RECURSIVE ClipFiles(_)
ClipFiles(nums) ==
    IF nums = <<>> THEN <<>> ELSE <<ClipFile(Head(nums))>> \o ClipFiles(Tail(nums))

\* _get_duration / get_video_info: the duration, or 0 when ffprobe fails.
Probe(ok) == IF ok THEN duration ELSE 0

\* _count_removed_segments, lines 261-265.
count_removed_segments(keep) == IF keep = <<>> THEN 0 ELSE Len(keep) - 1

\* A plausible slip: the empty keep list is not tested before the exports.
no_segments_unchecked(keep) == FALSE

\* "if not keep_segments", line 72.
no_segments(keep) == keep = <<>>

Init ==
    /\ pc = "start"
    /\ config \in Configs
    /\ duration \in Times
    /\ Rest({"config", "duration"})

\* Lines 40-56: the cancel flag is reset, the result record created, the
\* duration probed.
Begin ==
    /\ pc = "start"
    /\ cancelled' = FALSE
    /\ \E probe_ok \in BOOLEAN :
           results' = [NewResults EXCEPT !.original_duration = Probe(probe_ok)]
    /\ pc' = "detect"
    /\ UNCHANGED <<config, duration, total_duration, silence_segments,
                   transcription, speech_segments, keep_segments, filter_parts,
                   clip_cmds, transcoder_runs, cut_ok, clip_files, failed,
                   all_silent,
                   timeline, markers, file_queue, processing, worker,
                   progress>>

\* The detectors' lists are locals of _detect_keep_segments: only the keep list
\* leaves it.  failed and all_silent remember what the detectors did.
Detected(keep, fails, silent) ==
    /\ keep_segments' = keep
    /\ failed' = fails
    /\ all_silent' = silent
    /\ pc' = "detected"
    /\ UNCHANGED <<config, cancelled, duration, total_duration, silence_segments,
                   transcription, speech_segments, filter_parts, clip_cmds,
                   transcoder_runs, cut_ok, clip_files, results,
                   timeline, markers, file_queue, processing, worker,
                   progress>>

SilenceEverywhere(sil) ==
    sil.ok /\ duration > 0 /\ \A t \in 0 .. duration - 1 : t \in Covered(sil.segments)
NoSpeech(tr) == tr.ok /\ tr.segments = <<>>

\* _detect_keep_segments, mode 'ffmpeg': lines 158-166.
DetectFfmpeg ==
    /\ pc = "detect"
    /\ config.processing_mode = "ffmpeg"
    /\ \E sil \in SilenceOutcomes, probe_ok \in BOOLEAN :
           Detected(invert_segments(sil.segments, Probe(probe_ok)),
                    IF sil.ok THEN {} ELSE {"silence"},
                    SilenceEverywhere(sil))

\* _detect_keep_segments, mode 'whisper': lines 168-175.
DetectWhisper ==
    /\ pc = "detect"
    /\ config.processing_mode = "whisper"
    /\ \E tr \in SpeechOutcomes :
           Detected(detect_speech_from_video(tr, config.min_silence_duration),
                    IF tr.ok THEN {} ELSE {"speech"},
                    NoSpeech(tr))

\* _detect_keep_segments, mode 'hybrid': lines 177-198.
DetectHybrid ==
    /\ pc = "detect"
    /\ config.processing_mode = "hybrid"
    /\ \E sil \in SilenceOutcomes, tr \in SpeechOutcomes :
           Detected(merge_segments(
                        detect_speech_from_video(tr, config.min_silence_duration),
                        sil.segments),
                    (IF sil.ok THEN {} ELSE {"silence"})
                        \cup (IF tr.ok THEN {} ELSE {"speech"}),
                    SilenceEverywhere(sil) /\ NoSpeech(tr))

\* _detect_keep_segments, any other mode: lines 200-201.
DetectOther ==
    /\ pc = "detect"
    /\ config.processing_mode = "other"
    /\ Detected(<<>>, {}, FALSE)

Return(err) ==
    /\ results' = [results EXCEPT !.error = err]
    /\ pc' = "returned"

\* Lines 68-90: the first cancel check, the empty-list check, the statistics.
AfterDetect ==
    /\ pc = "detected"
    /\ IF cancelled THEN Return(CancelledMsg)
       ELSE IF no_segments(keep_segments) THEN Return(NoSegmentsMsg)
       ELSE /\ results' =
                   [results EXCEPT
                       !.final_duration = SumDurations(keep_segments),
                       !.time_saved =
                           results.original_duration - SumDurations(keep_segments),
                       !.segments_removed = count_removed_segments(keep_segments)]
            /\ pc' = "export_merged"
    /\ UNCHANGED <<config, cancelled, duration, total_duration, silence_segments,
                   transcription, speech_segments, keep_segments, filter_parts,
                   clip_cmds, transcoder_runs, cut_ok, clip_files, failed,
                   all_silent,
                   timeline, markers, file_queue, processing, worker,
                   progress>>

\* Lines 93-102: the merged output.
ExportMerged ==
    /\ pc = "export_merged"
    /\ IF config.export_merged
       THEN \E exit_ok \in BOOLEAN :
                LET r == cut_video(keep_segments, config.padding_seconds, exit_ok)
                IN  /\ filter_parts' = r.filter_parts
                    /\ cut_ok' = r.returned
                    /\ transcoder_runs' = transcoder_runs + r.started
                    /\ results' =
                           IF r.returned
                           THEN [results EXCEPT
                                    !.output_files = Append(@, MergedFile)]
                           ELSE results
       ELSE UNCHANGED <<filter_parts, cut_ok, transcoder_runs, results>>
    /\ pc' = "export_clips"
    /\ UNCHANGED <<config, cancelled, duration, total_duration, silence_segments,
                   transcription, speech_segments, keep_segments, clip_cmds,
                   clip_files, failed, all_silent,
                   timeline, markers, file_queue, processing, worker,
                   progress>>

\* Lines 104-118: the second cancel check, then the clips.
ExportClips ==
    /\ pc = "export_clips"
    /\ IF cancelled
       THEN /\ Return(CancelledMsg)
            /\ UNCHANGED <<clip_cmds, clip_files, transcoder_runs>>
       ELSE /\ pc' = "reports"
            /\ IF config.export_clips
               THEN \E oks \in [1 .. Len(keep_segments) -> BOOLEAN] :
                        LET r == export_clips(keep_segments,
                                              config.padding_seconds, oks)
                        IN  /\ clip_cmds' = r.cmds
                            /\ clip_files' = r.output_files
                            /\ transcoder_runs' = transcoder_runs + Len(r.cmds)
                            /\ results' =
                                   [results EXCEPT !.output_files =
                                       @ \o ClipFiles(r.output_files)]
               ELSE UNCHANGED <<clip_cmds, clip_files, transcoder_runs, results>>
    /\ UNCHANGED <<config, cancelled, duration, total_duration, silence_segments,
                   transcription, speech_segments, keep_segments, filter_parts,
                   cut_ok, failed, all_silent,
                   timeline, markers, file_queue, processing, worker,
                   progress>>

\* Lines 120-138: the timestamp report and the marker document, each written
\* from keep_segments and listed when its file was written, then success.
Reports ==
    /\ pc = "reports"
    /\ \E csv_ok \in BOOLEAN, xml_ok \in BOOLEAN :
           /\ timeline' =
                  IF config.export_timestamps /\ csv_ok
                  THEN generate_timestamp_report(keep_segments,
                                                 results.original_duration)
                  ELSE <<>>
           /\ markers' =
                  IF config.export_xml /\ xml_ok
                  THEN generate_premiere_xml(keep_segments) ELSE <<>>
           /\ results' =
                  [results EXCEPT
                      !.output_files =
                          @ \o (IF config.export_timestamps /\ csv_ok
                                THEN <<TimestampFile>> ELSE <<>>)
                            \o (IF config.export_xml /\ xml_ok
                                THEN <<XmlFile>> ELSE <<>>),
                      !.success = TRUE]
    /\ pc' = "announce"
    /\ UNCHANGED <<config, cancelled, duration, total_duration, silence_segments,
                   transcription, speech_segments, keep_segments, filter_parts,
                   clip_cmds, transcoder_runs, cut_ok, clip_files, failed,
                   all_silent, file_queue, processing, worker, progress>>

\* Lines 140-141 and 148: the completion message, then the record is returned.
Announce ==
    /\ pc = "announce"
    /\ pc' = "returned"
    /\ UNCHANGED <<config, cancelled, duration, total_duration, silence_segments,
                   transcription, speech_segments, keep_segments, filter_parts,
                   clip_cmds, transcoder_runs, cut_ok, clip_files, failed,
                   all_silent, results,
                   timeline, markers, file_queue, processing, worker,
                   progress>>

\* Lines 143-148: a statement of the try block raised (mkdir, the progress
\* callback, ...).  The handler records the error and calls the progress
\* callback; if that call raises too, the exception leaves process_video.
RaiseException ==
    /\ pc \in {"detect", "detected", "export_merged", "export_clips", "reports",
               "announce"}
    /\ results' = [results EXCEPT !.error = ExceptionMsg]
    /\ \E callback_ok \in BOOLEAN :
           pc' = IF callback_ok THEN "returned" ELSE "raised"
    /\ UNCHANGED <<config, cancelled, duration, total_duration, silence_segments,
                   transcription, speech_segments, keep_segments, filter_parts,
                   clip_cmds, transcoder_runs, cut_ok, clip_files, failed,
                   all_silent,
                   timeline, markers, file_queue, processing, worker,
                   progress>>

\* VideoProcessor.cancel, called from the window's thread at any moment.
Cancel ==
    /\ pc \notin {"returned", "raised"}
    /\ ~ cancelled
    /\ cancelled' = TRUE
    /\ UNCHANGED <<pc, config, duration, total_duration, silence_segments,
                   transcription, speech_segments, keep_segments, filter_parts,
                   clip_cmds, transcoder_runs, cut_ok, clip_files, failed,
                   all_silent, results,
                   timeline, markers, file_queue, processing, worker,
                   progress>>

Next ==
    \/ Begin
    \/ DetectFfmpeg
    \/ DetectWhisper
    \/ DetectHybrid
    \/ DetectOther
    \/ AfterDetect
    \/ ExportMerged
    \/ ExportClips
    \/ Reports
    \/ Announce
    \/ RaiseException
    \/ Cancel

Spec == Init /\ [][Next]_vars

PastDetection ==
    pc \in {"detected", "export_merged", "export_clips", "reports", "announce",
            "returned", "raised"}

\* C9: with an empty keep list no transcoder cut or clip extraction is ever
\* invoked: cut_video returns False without starting the transcoder, and
\* process_video returns a non-success record with an error description and
\* no output file, before any export step.
C9_EmptyKeepNoExport ==
    /\ \A p \in Paddings, exit_ok \in BOOLEAN :
           /\ ~ cut_video(<<>>, p, exit_ok).returned
           /\ cut_video(<<>>, p, exit_ok).started = 0
           /\ cut_video(<<>>, p, exit_ok).filter_parts = <<>>
    /\ (PastDetection /\ keep_segments = <<>>) =>
           /\ transcoder_runs = 0
           /\ filter_parts = <<>>
           /\ clip_cmds = <<>>
           /\ pc \in {"detected", "returned", "raised"}
    /\ (pc = "returned" /\ keep_segments = <<>>) =>
           /\ ~ results.success
           /\ results.error # None
           /\ results.output_files = <<>>

\* C9's case: every export is switched on, the detector found silence all
\* over, and the run returned the no-segments record.
C9_Witness ==
    /\ pc = "returned"
    /\ keep_segments = <<>>
    /\ all_silent
    /\ config.export_merged /\ config.export_clips /\ config.export_timestamps
    /\ results.error = NoSegmentsMsg

\* The detector(s) the mode relies on all failed.
DetectorFailedTotally ==
    \/ config.processing_mode = "ffmpeg" /\ failed = {"silence"}
    \/ config.processing_mode = "whisper" /\ failed = {"speech"}
    \/ config.processing_mode = "hybrid" /\ failed = {"silence", "speech"}

\* C10: in every mode, when the whole video is silent or the mode's detector
\* fails totally, the keep list is empty and the file's result is the
\* non-success "No segments to keep" record (a cancelled or aborted run
\* aside); in particular silence_only([(0, D)], D) = [].
C10_SilentOrFailedGivesNoSegments ==
    /\ \A D \in Times : invert_segments(<< <<0, D>> >>, D) = <<>>
    /\ (pc = "returned" /\ (all_silent \/ DetectorFailedTotally)
            /\ results.error \notin {CancelledMsg, ExceptionMsg}) =>
           /\ keep_segments = <<>>
           /\ ~ results.success
           /\ results.error = NoSegmentsMsg

\* What each reconciler gives when a failed detector's list is empty.
ReconciledWithoutSilence ==
    {invert_segments(<<>>, D) : D \in {0, duration}}
ReconciledSpeechAlone ==
    [min_gap \in Gaps |->
        {merge_segments(get_speech_segments(tr, min_gap), <<>>) :
            tr \in SpeechOutcomes \ {NoTranscription}}]

IsRemoved(row) == row.action = "REMOVED"
RemovedRows(rows) == SelectSeq(rows, IsRemoved)

\* C26: the segments_removed statistic of the result equals the number of
\* REMOVED rows of the timestamp report written in the same run (from the same
\* keep list and original_duration).
C26_RemovedCountMatchesReport ==
    (pc \in {"announce", "returned"} /\ timeline # <<>>) =>
        results.segments_removed = Len(RemovedRows(timeline))

\* C27: in every record process_video returns, success is true exactly when
\* error is None.
C27_SuccessIffNoError ==
    pc = "returned" => (results.success <=> results.error = None)

\* C28: a record returned with success = true by a run with export_merged
\* enabled lists the merged output file.
C28_SuccessListsMergedFile ==
    (pc = "returned" /\ results.success /\ config.export_merged) =>
        \E k \in 1 .. Len(results.output_files) :
            results.output_files[k] = MergedFile

\* ------------------------------- specification: the outputs of one run
\* process_video in mode 'whisper' from the detection to the reports, on
\* whatever the transcription holds.
\* The transcription holds up to MaxRaw segments, in any order; the duration is
\* the video's length, or 0 when ffprobe failed.
MaxRaw == MaxLen + 1
RawTranscriptions == {Transcribed(raw) : raw \in SeqsUpTo(Intervals, MaxRaw)}

InitOutputs ==
    /\ pc = "speech_call"
    /\ transcription \in RawTranscriptions
    /\ duration \in {0, MaxT}
    /\ config = [RestConfig EXCEPT !.processing_mode = "whisper",
                                   !.export_xml = TRUE]
    /\ Rest({"transcription", "duration", "config"})

\* Lines 72-76: nothing to keep, nothing is written.
NoOutputs ==
    /\ pc = "speech_done"
    /\ no_segments(keep_segments)
    /\ pc' = "no_segments"
    /\ UNCHANGED <<config, cancelled, duration, total_duration, silence_segments,
                   transcription, speech_segments, keep_segments, filter_parts,
                   clip_cmds, transcoder_runs, cut_ok, clip_files, failed,
                   all_silent, results, timeline, markers, file_queue,
                   processing, worker, progress>>

\* Lines 93-136 with the merged video, the timestamps and the markers switched
\* on: the three are made from keep_segments, one after the other.
WriteOutputs ==
    /\ pc = "speech_done"
    /\ ~ no_segments(keep_segments)
    /\ \E exit_ok \in BOOLEAN :
           LET r == cut_video(keep_segments, config.padding_seconds, exit_ok)
           IN  /\ filter_parts' = r.filter_parts
               /\ cut_ok' = r.returned
               /\ transcoder_runs' = transcoder_runs + r.started
    /\ timeline' = generate_timestamp_report(keep_segments, duration)
    /\ markers' = generate_premiere_xml(keep_segments)
    /\ pc' = "outputs_written"
    /\ UNCHANGED <<config, cancelled, duration, total_duration, silence_segments,
                   transcription, speech_segments, keep_segments, clip_cmds,
                   clip_files, failed, all_silent, results, file_queue,
                   processing, worker, progress>>

NextOutputs == DetectSpeechOnly \/ NoOutputs \/ WriteOutputs
SpecOutputs == InitOutputs /\ [][NextOutputs]_vars

\* The k-th cut instruction is the k-th range [s, e] with the padding applied.
CutOf(part, s, e) ==
    /\ part.trim_start = padded_start(<<s, e>>, config.padding_seconds)
    /\ part.trim_end = padded_end(<<s, e>>, config.padding_seconds)

\* C14: within one run of process_video, in every mode, the merged-video cut
\* instructions, the CSV timeline and the markers describe the same ranges in
\* the same order: the k-th KEPT row, the k-th marker and the k-th cut
\* instruction (before padding) carry the start and end of the k-th keep
\* segment.
C14_OutputsAgree ==
    pc = "outputs_written" =>
        LET kept == KeptRows(timeline)
            n == Len(keep_segments)
        IN  /\ timeline # <<>> =>
                   /\ Len(kept) = n
                   /\ \A k \in 1 .. n :
                          /\ seconds_of(kept[k].start) = Start(keep_segments[k])
                          /\ seconds_of(kept[k].end) = End(keep_segments[k])
            /\ markers # <<>> =>
                   /\ Len(markers) = n
                   /\ \A k \in 1 .. n :
                          /\ markers[k].offset[1] = Start(keep_segments[k])
                          /\ markers[k].offset[1] + markers[k].duration[1] =
                                 End(keep_segments[k])
            /\ filter_parts # <<>> =>
                   /\ Len(filter_parts) = n
                   /\ \A k \in 1 .. n :
                          CutOf(filter_parts[k], Start(keep_segments[k]),
                                End(keep_segments[k]))
            /\ (timeline # <<>> /\ markers # <<>> /\ filter_parts # <<>>) =>
                   \A k \in 1 .. n :
                       /\ markers[k].offset[1] = seconds_of(kept[k].start)
                       /\ markers[k].offset[1] + markers[k].duration[1] =
                              seconds_of(kept[k].end)
                       /\ CutOf(filter_parts[k], seconds_of(kept[k].start),
                                seconds_of(kept[k].end))

\* C17: no exception raised inside process_video leaves it: every call returns
\* its result record, with a boolean success and an error description.
C17_NoExceptionEscapes ==
    /\ pc # "raised"
    /\ pc = "returned" =>
           /\ results.success \in BOOLEAN
           /\ results.success \/ results.error # None

\* ---------------------------------------------- specification: the batch
\* The files the user can queue.
Files == 1 .. MaxLen

Range(q) == {q[k] : k \in 1 .. Len(q)}
RemoveAt(q, index) == [k \in 1 .. Len(q) - 1 |-> IF k < index THEN q[k] ELSE q[k + 1]]

\* Every Tk call raises once root.destroy() has run (line 518).
Destroyed == progress.window = "destroyed"

\* The positions of process_thread inside process_video.
InProcessVideo == {"detect", "check1", "merged", "check2", "final", "pv_except"}
Running ==
    {"create", "next", "check", "show", "call", "record", "complete",
     "thread_except", "finally"} \cup InProcessVideo

\* MainWindow.__init__, lines 18-23: an empty queue, nothing under way.
InitBatch ==
    /\ pc = "batch"
    /\ Rest({})

\* What the batch leaves alone: the state of the core's single operations.
BatchRest ==
    UNCHANGED <<pc, config, duration, total_duration, silence_segments,
                transcription, speech_segments, keep_segments, filter_parts,
                clip_cmds, transcoder_runs, cut_ok, clip_files, failed,
                all_silent, results, timeline, markers>>

\* A plausible slip: the "already processing" test of lines 448-450 is left
\* out.
ProcessAll_unguarded ==
    /\ ~ Destroyed
    /\ file_queue # <<>>
    /\ worker.threads < MaxLen
    /\ processing' = TRUE
    /\ progress' = [results |-> <<>>, complete |-> FALSE, window |-> "open"]
    /\ worker' = [IdleWorker EXCEPT !.pc = "create", !.queued = file_queue,
                                    !.pressed = file_queue,
                                    !.threads = worker.threads + 1]
    /\ BatchRest
    /\ UNCHANGED <<cancelled, file_queue>>

\* _process_all, lines 442-509, up to thread.start(): with an empty queue or
\* with processing set it returns at once; otherwise it sets processing, opens
\* a new progress window and starts a thread.  worker.pressed is the queue as
\* it is at that moment, worker.threads the number of process_thread threads
\* alive; worker follows the thread started last.
ProcessAll ==
    /\ ~ Destroyed
    /\ file_queue # <<>>
    /\ ~ processing
    /\ processing' = TRUE
    /\ progress' = [results |-> <<>>, complete |-> FALSE, window |-> "open"]
    /\ worker' = [IdleWorker EXCEPT !.pc = "create", !.queued = file_queue,
                                    !.pressed = file_queue,
                                    !.threads = worker.threads + 1]
    /\ BatchRest
    /\ UNCHANGED <<cancelled, file_queue>>

\* _browse_files, lines 382-386: a file not yet queued is appended.
BrowseFiles ==
    /\ ~ Destroyed
    /\ \E f \in Files \ Range(file_queue) : file_queue' = Append(file_queue, f)
    /\ BatchRest
    /\ UNCHANGED <<cancelled, processing, worker, progress>>

\* worker.queued remembers the files that were queued when the batch was
\* started and have not been taken off the queue since.
Without(q, f) == LET Other(x) == x # f IN SelectSeq(q, Other)

\* _remove_selected, lines 390-397.
RemoveSelected ==
    /\ ~ Destroyed
    /\ \E index \in 1 .. Len(file_queue) :
           /\ file_queue' = RemoveAt(file_queue, index)
           /\ worker' = [worker EXCEPT !.queued = Without(@, file_queue[index])]
    /\ BatchRest
    /\ UNCHANGED <<cancelled, processing, progress>>

\* _clear_queue, lines 399-403.
ClearQueue ==
    /\ ~ Destroyed
    /\ file_queue # <<>>
    /\ file_queue' = <<>>
    /\ worker' = [worker EXCEPT !.queued = <<>>]
    /\ BatchRest
    /\ UNCHANGED <<cancelled, processing, progress>>

\* _on_closing, lines 511-523, the user confirming: processing is cleared, the
\* processor (if the thread has created it) is cancelled, the windows go.
OnClosing ==
    /\ ~ Destroyed
    /\ processing' = FALSE
    /\ cancelled' = IF processing /\ worker.pc \notin {"idle", "create"}
                    THEN TRUE ELSE cancelled
    /\ progress' = [progress EXCEPT !.window = "destroyed"]
    /\ BatchRest
    /\ UNCHANGED <<file_queue, worker>>

\* Line 474: the processor is created, not cancelled.
CreateProcessor ==
    /\ worker.pc = "create"
    /\ cancelled' = FALSE
    /\ worker' = [worker EXCEPT !.pc = "next"]
    /\ BatchRest
    /\ UNCHANGED <<file_queue, processing, progress>>

\* Line 476: the for loop asks the list iterator for the next item; the list
\* is self.file_queue itself, as it is at that moment.
NextFile ==
    /\ worker.pc = "next"
    /\ worker' = IF worker.i < Len(file_queue)
                 THEN [worker EXCEPT !.pc = "check", !.i = @ + 1,
                                     !.video = file_queue[worker.i + 1]]
                 ELSE [worker EXCEPT !.pc = "complete"]
    /\ BatchRest
    /\ UNCHANGED <<cancelled, file_queue, processing, progress>>

\* Lines 477-478: "if not self.processing: break".
CheckProcessing ==
    /\ worker.pc = "check"
    /\ worker' = [worker EXCEPT !.pc = IF processing THEN "show" ELSE "complete"]
    /\ BatchRest
    /\ UNCHANGED <<cancelled, file_queue, processing, progress>>

\* Line 481: update_current_file, a Tk call.
ShowCurrentFile ==
    /\ worker.pc = "show"
    /\ worker' = [worker EXCEPT !.pc = IF Destroyed THEN "thread_except" ELSE "call"]
    /\ BatchRest
    /\ UNCHANGED <<cancelled, file_queue, processing, progress>>

\* process_video, lines 40-56: the cancel flag is reset, the run begins.
StartVideo ==
    /\ worker.pc = "call"
    /\ cancelled' = FALSE
    /\ worker' = [worker EXCEPT !.pc = "detect", !.result = "none",
                                !.started = Append(@, worker.video)]
    /\ BatchRest
    /\ UNCHANGED <<file_queue, processing, progress>>

\* Lines 62-66: the detection; the detectors report through the progress
\* callback (ProgressWindow.update_status), which raises without its window.
DetectVideo ==
    /\ worker.pc = "detect"
    /\ worker' = [worker EXCEPT !.pc = IF Destroyed THEN "pv_except" ELSE "check1"]
    /\ BatchRest
    /\ UNCHANGED <<cancelled, file_queue, processing, progress>>

\* Lines 68-76: the first cancel check, then the empty-list check with its
\* message.
FirstCheck ==
    /\ worker.pc = "check1"
    /\ IF cancelled
       THEN worker' = [worker EXCEPT !.pc = "record", !.result = CancelledMsg]
       ELSE \E empty \in BOOLEAN :
                worker' =
                    IF ~ empty THEN [worker EXCEPT !.pc = "merged"]
                    ELSE IF Destroyed THEN [worker EXCEPT !.pc = "pv_except"]
                    ELSE [worker EXCEPT !.pc = "record", !.result = NoSegmentsMsg]
    /\ BatchRest
    /\ UNCHANGED <<cancelled, file_queue, processing, progress>>

\* Lines 88-102: the output folder is made (this may raise), then the merged
\* video if asked for; cut_video reports through the callback at line 131.
MergedPhase ==
    /\ worker.pc = "merged"
    /\ \E mkdir_ok \in BOOLEAN, export_merged \in BOOLEAN :
           worker' =
               [worker EXCEPT !.pc =
                   IF ~ mkdir_ok \/ (export_merged /\ Destroyed)
                   THEN "pv_except" ELSE "check2"]
    /\ BatchRest
    /\ UNCHANGED <<cancelled, file_queue, processing, progress>>

\* Lines 104-106: the second cancel check.
SecondCheck ==
    /\ worker.pc = "check2"
    /\ worker' = IF cancelled
                 THEN [worker EXCEPT !.pc = "record", !.result = CancelledMsg]
                 ELSE [worker EXCEPT !.pc = "final"]
    /\ BatchRest
    /\ UNCHANGED <<cancelled, file_queue, processing, progress>>

\* Lines 108-141: the clips and the reports, success, the completion message.
FinalPhase ==
    /\ worker.pc = "final"
    /\ worker' = IF Destroyed THEN [worker EXCEPT !.pc = "pv_except"]
                 ELSE [worker EXCEPT !.pc = "record", !.result = "success"]
    /\ BatchRest
    /\ UNCHANGED <<cancelled, file_queue, processing, progress>>

\* Lines 143-148: the handler records str(e) and calls the callback again.
HandleException ==
    /\ worker.pc = "pv_except"
    /\ worker' = IF Destroyed THEN [worker EXCEPT !.pc = "thread_except"]
                 ELSE [worker EXCEPT !.pc = "record", !.result = ExceptionMsg]
    /\ BatchRest
    /\ UNCHANGED <<cancelled, file_queue, processing, progress>>

\* Lines 489-495: the result line of the file, a Tk call.  A line is kept as
\* the file it is about and its mark: TRUE for the tick of a success, FALSE for
\* the cross of an error.
RecordResult ==
    /\ worker.pc = "record"
    /\ IF Destroyed
       THEN /\ worker' = [worker EXCEPT !.pc = "thread_except"]
            /\ UNCHANGED progress
       ELSE /\ worker' = [worker EXCEPT !.pc = "next"]
            /\ progress' = [progress EXCEPT
                               !.results =
                                   Append(@, <<worker.video,
                                               worker.result = "success">>)]
    /\ BatchRest
    /\ UNCHANGED <<cancelled, file_queue, processing>>

\* Line 497: processing_complete, Tk calls again.
ProcessingComplete ==
    /\ worker.pc = "complete"
    /\ IF Destroyed
       THEN /\ worker' = [worker EXCEPT !.pc = "thread_except"]
            /\ UNCHANGED progress
       ELSE /\ worker' = [worker EXCEPT !.pc = "finally"]
            /\ progress' = [progress EXCEPT !.complete = TRUE]
    /\ BatchRest
    /\ UNCHANGED <<cancelled, file_queue, processing>>

\* Lines 499-501: the thread's own handler; its add_result raises as well when
\* the windows are gone, and the exception ends the thread after "finally".
ThreadException ==
    /\ worker.pc = "thread_except"
    /\ worker' = [worker EXCEPT !.pc = "finally"]
    /\ progress' = IF Destroyed THEN progress
                   ELSE [progress EXCEPT
                            !.results = Append(@, <<0, FALSE>>),
                            !.complete = TRUE]
    /\ BatchRest
    /\ UNCHANGED <<cancelled, file_queue, processing>>

\* Lines 503-506.
Finally ==
    /\ worker.pc = "finally"
    /\ processing' = FALSE
    /\ worker' = [worker EXCEPT !.pc = "done", !.threads = @ - 1]
    /\ BatchRest
    /\ UNCHANGED <<cancelled, file_queue, progress>>

\* root.mainloop() has returned: the interpreter exits and takes the daemon
\* thread with it, wherever it is.
InterpreterExit ==
    /\ Destroyed
    /\ worker.pc \in Running
    /\ worker' = [worker EXCEPT !.pc = "killed", !.threads = 0]
    /\ BatchRest
    /\ UNCHANGED <<cancelled, file_queue, processing, progress>>

NextBatch ==
    \/ ProcessAll
    \/ BrowseFiles
    \/ RemoveSelected
    \/ ClearQueue
    \/ OnClosing
    \/ CreateProcessor
    \/ NextFile
    \/ CheckProcessing
    \/ ShowCurrentFile
    \/ StartVideo
    \/ DetectVideo
    \/ FirstCheck
    \/ MergedPhase
    \/ SecondCheck
    \/ FinalPhase
    \/ HandleException
    \/ RecordResult
    \/ ProcessingComplete
    \/ ThreadException
    \/ Finally
    \/ InterpreterExit

SpecBatch == InitBatch /\ [][NextBatch]_vars

\* A cancel was requested while the batch runs: _on_closing cleared processing
\* before the thread did.
CancelRequested == worker.pc \in Running /\ ~ processing

\* C18: in a batch that is not cancelled a failed file never stops the batch:
\* its result is recorded and the next queued file is started, until every
\* queued file has been attempted; then processing_complete is signalled.
C18_BatchContinues ==
    /\ ~ Destroyed =>
           /\ worker.pc \notin {"thread_except", "killed"}
           /\ Len(progress.results) \in {Len(worker.started) - 1, Len(worker.started)}
           /\ \A k \in 1 .. Len(progress.results) :
                  progress.results[k][1] = worker.started[k]
    /\ (~ Destroyed /\ progress.complete) =>
           \A f \in Range(worker.queued) : f \in Range(worker.started)

\* C19: once a cancel is requested while a batch runs, no later queued video
\* is started, and the video in progress ends at the next phase boundary
\* (after detection, before the final export phase) by returning the
\* "Processing cancelled by user" record, without a further export.
C19_CancelHonoured ==
    [][CancelRequested =>
           /\ worker'.started = worker.started
           /\ (worker.pc \in InProcessVideo
                   /\ worker'.pc \notin InProcessVideo \cup {"killed"}) =>
                  /\ worker.pc \in {"check1", "check2"}
                  /\ worker'.pc = "record"
                  /\ worker'.result = CancelledMsg]_vars

\* C29: in a batch that is not cancelled the files handed to process_video are
\* exactly the files that were in the queue when Process All was pressed, each
\* once and in queue order, whatever the user does to the queue meanwhile.
C29_BatchProcessesPressedQueue ==
    (~ Destroyed /\ progress.complete) => worker.started = worker.pressed

\* C30: at most one process_thread is alive at any time: no step taken while
\* processing is set adds a thread, and the step that ends a thread leaves
\* processing cleared.
C30_SingleWorker ==
    [][/\ worker'.threads <= 1
       /\ processing => worker'.threads <= worker.threads
       /\ (worker.pc \in Running /\ worker'.pc \in {"done", "killed"}) =>
              ~ processing']_vars

\* C30's case: a thread is inside process_video with processing set, the main
\* window is there and the queue is not empty, so that a Process All pressed
\* now gets past the empty-queue test and is turned away by the flag alone.
C30_Witness ==
    /\ worker.threads = 1
    /\ processing
    /\ worker.pc \in InProcessVideo
    /\ ~ Destroyed
    /\ file_queue # <<>>
    /\ ~ ENABLED ProcessAll

====
